---- MODULE Spec2Model ----
(***************************************************************************)
(* Model of the "Operator" orchestration graph (app/operator/graph.py),    *)
(* the BrowserAgent worker run (app/operator/browser_agent/main.py) and    *)
(* the history-to-media composer it calls (app/files.py).                  *)
(*                                                                         *)
(* External capabilities (the routing LLM, the browser-use step loop, the  *)
(* browser, the file system, the fonts and encoders) are inputs: every     *)
(* action draws their answer from a small set with \E.                     *)
(***************************************************************************)
EXTENDS Integers, Sequences, FiniteSets, TLC

(***************************************************************************)
(* Bounds                                                                  *)
(***************************************************************************)
\* number of Worker invocations one run of the graph may make
MaxRuns == 3
\* longest action history a step-loop may return
MaxHist == 2

(***************************************************************************)
(* Values                                                                  *)
(***************************************************************************)
\* Python's None where the value is otherwise a string
None == "None"
\* state.get("browser_context") when no BrowserContext is stored
NoSession == 0

\* graph.py:20
workers == {"authenticate", "act"}
\* graph.py:32
options == workers \cup {"FINISH"}
\* langgraph.graph.END
END == "__end__"
\* a routing answer the Router schema does not list; response["next"] can
\* hold it, with_structured_output does not validate a TypedDict schema
OutOfEnum == "search"

\* final_result() of a completed step-loop
FinalResults == {"logged in", None}
\* AgentHistory.result: the ActionResult.error of each action of one step
Results == {<<>>, <<None>>, <<"Action error">>, <<"Action error", None>>}
\* AgentHistory: state.screenshot present, model_output present, result
Entries == [screenshot : BOOLEAN, model_output : BOOLEAN, result : Results]

SeqsUpTo(S, n) == UNION {[1..k -> S] : k \in 0..n}
\* the histories a step-loop returns. BrowserAgent.run reads of an entry
\* its screenshot and its result; model_output only selects the overlay
\* drawn on a frame, so it is fixed here.
RunHistories == SeqsUpTo({e \in Entries : e.model_output}, MaxHist)
\* the histories given to a run of the graph: line 138 reads the last
\* result of an entry only, so results of one element at most are enough
Histories == {h \in RunHistories : \A i \in DOMAIN h : Len(h[i].result) <= 1}

\* content of the cookie file when the step-loop has completed
CookieFiles == {"missing", "unreadable", "invalid json", "cookies"}

\* outcome of browser_context.close() / browser_context.browser.close()
CloseOutcomes == {"ok", "context.close raises", "browser.close raises"}

(***************************************************************************)
(* FileUtils (app/files.py)                                                *)
(***************************************************************************)
\* the value create_media_from_history_list returns for `return None`
NoMedia == [returned |-> None]

\* dict.get(key) on a HistoryMedia: None for a key the dict does not have
DictGet(d, key) == IF key \in DOMAIN d THEN d[key] ELSE None

\* images built by create_media_from_history_list, lines 350-386:
\* a title frame, one frame per entry with a screenshot (badge = 1-based
\* position when the entry has a model_output, 0 = raw screenshot), one
\* title-style frame per appended screenshot. source is the screenshot a
\* frame is made from: the entry's position, or the position in
\* screenshots_to_append.
RECURSIVE StepFrames(_, _)
StepFrames(history, i) ==
    IF i > Len(history) THEN <<>>
    ELSE IF ~history[i].screenshot THEN StepFrames(history, i + 1)
    ELSE <<[kind |-> "step",
            badge |-> IF history[i].model_output THEN i ELSE 0,
            source |-> i]>>
         \o StepFrames(history, i + 1)

\* variant of Frames: the badges count the frames, an entry without a
\* screenshot consumes no number
Frames_CountsFrames(history, nAppend) ==
    LET steps == StepFrames(history, 1) IN
    <<[kind |-> "title", badge |-> 0, source |-> 1]>>
    \o [j \in DOMAIN steps |->
           [steps[j] EXCEPT !.badge = IF @ = 0 THEN 0 ELSE j]]
    \o [k \in 1..nAppend |-> [kind |-> "appended", badge |-> 0, source |-> k]]

Frames(history, nAppend) ==
    <<[kind |-> "title", badge |-> 0, source |-> 1]>>
    \o StepFrames(history, 1)
    \o [k \in 1..nAppend |-> [kind |-> "appended", badge |-> 0, source |-> k]]

\* the try block of create_media_from_history_list raises (and the except
\* returns None) when history_list.history[0] does not exist, when the
\* title frame has no screenshot to open, or when a font or an encoder
\* fails (renderOk = FALSE)
MediaRaises(history, renderOk) ==
    \/ Len(history) = 0
    \/ ~history[1].screenshot
    \/ ~renderOk

\* variant of create_media_from_history_list: an empty history gets a
\* blank title frame instead of failing on history[0]
create_media_from_history_list_BlankTitle(history, nAppend, filename, output_format, renderOk) ==
    IF ~renderOk \/ (Len(history) > 0 /\ ~history[1].screenshot) THEN NoMedia
    ELSE [gif |-> IF "gif" \in output_format THEN filename \o ".gif" ELSE None,
          mp4 |-> IF "mp4" \in output_format THEN filename \o ".mp4" ELSE None]

create_media_from_history_list(history, nAppend, filename, output_format, renderOk) ==
    IF MediaRaises(history, renderOk) THEN NoMedia
    ELSE IF Len(Frames(history, nAppend)) = 0 THEN NoMedia
    ELSE [gif |-> IF "gif" \in output_format THEN filename \o ".gif" ELSE None,
          mp4 |-> IF "mp4" \in output_format THEN filename \o ".mp4" ELSE None]

\* variant of read_json_file: a failed read yields an empty list
read_json_file_EmptyOnFailure(file) ==
    IF file = "cookies" THEN "cookies" ELSE "[]"

\* read_json_file, lines 405-412: None for a missing file (exists() is
\* false), for a file that cannot be read and for unparsable JSON (read_text
\* and json.loads raise inside the try)
read_json_file(file) == IF file = "cookies" THEN "cookies" ELSE None

\* the record read_json_file logs in its except clause, line 411
ReadJsonLogs(file) ==
    IF file \in {"unreadable", "invalid json"}
    THEN {"Failed to read JSON file"} ELSE {}

(***************************************************************************)
(* BrowserAgent.run (app/operator/browser_agent/main.py)                   *)
(***************************************************************************)
\* no BrowserAgentOutput: run() raised instead of returning
NoOutput == [returned |-> "nothing"]
\* agent_history_media before any run has reached line 136
NotRun == [returned |-> "not run"]

\* file name stem of one BrowserAgent's media, line 41
AGENT_HISTORY_FILE_NAME == "logs/agent/agent_history_run"

\* variant of OpenSession: a new session for every run, the given one unused
OpenSession_AlwaysNew(browser_context, created) ==
    [context |-> Cardinality(created) + 1,
     created |-> created \cup {Cardinality(created) + 1}]

\* lines 124-127: the browser and the context the run drives. A run given
\* a browser_context uses it; a run given none makes a Browser and a new
\* context, here the next unused session id.
OpenSession(browser_context, created) ==
    IF browser_context # NoSession
    THEN [context |-> browser_context, created |-> created]
    ELSE [context |-> Cardinality(created) + 1,
          created |-> created \cup {Cardinality(created) + 1}]

\* lines 87-93
_read_agent_cookies(file) == read_json_file(file)

\* lines 66-82: _create_history_media, one appended screenshot, both formats
_create_history_media(history, renderOk) ==
    create_media_from_history_list(history, 1, AGENT_HISTORY_FILE_NAME,
                                   {"mp4", "gif"}, renderOk)

\* line 138: agent_history.history[-1].result[-1].error
LastErrorRaises(history) ==
    \/ Len(history) = 0
    \/ Len(history[Len(history)].result) = 0
LastError(history) ==
    LET r == history[Len(history)].result IN r[Len(r)]

\* variant of BrowserAgentRun: a step-loop failure is swallowed and a
\* partial output is returned
BrowserAgentRun_ReturnsPartial(context, loop, history, final, cookieFile, renderOk) ==
    [raised |-> None,
     output |-> [agent_history_gif_url |-> None,
                 agent_history_gif_video_url |-> None,
                 agent_history_video_recording_url |-> None,
                 message |-> "partial",
                 error |-> "StepLoopError",
                 image_url |-> None,
                 agent_cookies |-> None,
                 browser_context |-> context],
     media |-> NotRun,
     logs |-> {"BrowserAgent run_with_context error"}]

\* lines 107-159. loop is what self.agent.run() did ("raises" or
\* "completes" with history and final); the value is the exception run()
\* raises (None when it returns), the output it returns, the local
\* agent_history_media and the records it logs.
BrowserAgentRun(context, loop, history, final, cookieFile, renderOk) ==
    LET media    == _create_history_media(history, renderOk)
        mediaLog == IF MediaRaises(history, renderOk)
                    THEN {"Failed to create GIF"} ELSE {}
        cookieLog == ReadJsonLogs(cookieFile)
        errLog   == {"BrowserAgent run_with_context error"}
    IN  IF loop = "raises"
        THEN [raised |-> "StepLoopError", output |-> NoOutput,
              media |-> NotRun, logs |-> errLog]
        ELSE IF LastErrorRaises(history)
        THEN [raised |-> "IndexError", output |-> NoOutput,
              media |-> media, logs |-> cookieLog \cup mediaLog \cup errLog]
        ELSE IF media = NoMedia
        THEN \* line 141: agent_history_media.get on None
             [raised |-> "AttributeError", output |-> NoOutput,
              media |-> media, logs |-> cookieLog \cup mediaLog \cup errLog]
        ELSE [raised |-> None,
              output |-> [agent_history_gif_url |-> DictGet(media, "gif_url"),
                          agent_history_gif_video_url |-> DictGet(media, "gif_video_url"),
                          agent_history_video_recording_url |->
                              DictGet(media, "video_recording_url"),
                          message |-> final,
                          error |-> LastError(history),
                          image_url |-> DictGet(media, "screenshot_url"),
                          agent_cookies |-> _read_agent_cookies(cookieFile),
                          browser_context |-> context],
              media |-> media, logs |-> cookieLog \cup mediaLog]

(***************************************************************************)
(* The graph (app/operator/graph.py)                                       *)
(***************************************************************************)
Nodes == {"supervisor"} \cup workers

VARIABLES
    tasks,            \* nodes langgraph has scheduled and not yet finished
    status,           \* "running", "finished" (no task left), "aborted" (raised)
    raised,           \* the exception the run raised to its caller, or None
    messages,         \* BrowserState.messages
    browser_context,  \* BrowserState.browser_context
    next,             \* BrowserState.next
    goto,             \* response["next"] of the last supervisor step
    wpc,              \* per Worker node: "idle", "agent_run", "raised"
    context,          \* per Worker node: the local context of its run
    sessions,         \* the browser sessions created so far
    closeCalls,       \* the close() calls made so far, in order
    log,              \* records written to the application logger
    result,           \* result of the last browser_agent.run that returned
    media,            \* agent_history_media of the last run
    agent_run,        \* how the last self.agent.run() ended
    runs,             \* Worker invocations so far
    config,           \* BrowserState: title, prompt and the two instructions
    cookie_file,      \* content of the cookie file when it was last read
    frame             \* locals of a FileUtils / supervisor call checked alone

\* the variables of a run of the graph
gvars == <<tasks, status, raised, messages, browser_context, next, goto, wpc,
           context, sessions, closeCalls, log, result, media, agent_run, runs,
           config, cookie_file>>

vars == <<gvars, frame>>

\* no call is being checked alone
NoFrame == [fn |-> None]

\* the input state of a run: state.py lines 10-13
InputConfig == [title |-> "Get the weather",
                prompt |-> "You are web explorer agent",
                authentication_instruction |-> "Log in",
                act_instruction |-> "Open the forecast"]

\* builder.add_edge(START, "supervisor"), line 110; the input state holds
\* no browser_context and no messages
GraphInit ==
    /\ tasks = {"supervisor"}
    /\ status = "running"
    /\ raised = None
    /\ messages = <<>>
    /\ browser_context = NoSession
    /\ next = None
    /\ goto = None
    /\ wpc = [w \in workers |-> "idle"]
    /\ context = [w \in workers |-> NoSession]
    /\ sessions = {}
    /\ closeCalls = <<>>
    /\ log = {}
    /\ result = NoOutput
    /\ media = NotRun
    /\ agent_run = "not called"
    /\ runs = 0
    /\ config = InputConfig
    /\ cookie_file = "missing"

Init == GraphInit /\ frame = NoFrame

\* variant of Schedule: the supervisor stays scheduled next to its target
Schedule_KeepsSupervisor(scheduled, node, target) ==
    (scheduled \ (workers \cap {node}))
    \cup (IF target \in Nodes THEN {target} ELSE {})

\* langgraph: a node's Command(goto=...) schedules the named node; END and
\* a name that is no node schedule nothing
Schedule(scheduled, node, target) ==
    (scheduled \ {node}) \cup (IF target \in Nodes THEN {target} ELSE {})

\* MessagesState reducer: new messages are appended
add_messages(left, right) == left \o right

\* the run is over when no task is left
StatusOf(scheduled) == IF scheduled = {} THEN "finished" ELSE "running"

\* langgraph applies a Command's update to the state: a key of the update
\* replaces the state's value, messages go through the reducer, a key the
\* update does not hold keeps its value
Updated(update, key, old) == IF key \in DOMAIN update THEN update[key] ELSE old

ApplyUpdate(update) ==
    /\ messages' = IF "messages" \in DOMAIN update
                   THEN add_messages(messages, update.messages)
                   ELSE messages
    /\ browser_context' = Updated(update, "browser_context", browser_context)
    /\ next' = Updated(update, "next", next)
    /\ config' = [k \in DOMAIN config |-> Updated(update, k, config[k])]

\* a node that raises leaves the state as it was
NoUpdate == UNCHANGED <<messages, browser_context, next, config>>

\* variant of SupervisorCommand: the decision is also put in the conversation
SupervisorCommand_Echoes(response) ==
    LET target == IF response = "FINISH" THEN END ELSE response
    IN  [goto |-> target,
         update |-> [next |-> target,
                     messages |-> <<[name |-> "supervisor", content |-> response]>>]]

\* lines 48-59: the Command the supervisor returns
SupervisorCommand(response) ==
    LET target == IF response = "FINISH" THEN END ELSE response
    IN  [goto |-> target, update |-> [next |-> target]]

\* variant of SupervisorClose: no except clause, a failing close propagates
SupervisorClose_Unguarded(session, outcome) ==
    IF session = NoSession
    THEN [calls |-> <<>>, logs |-> {}, raised |-> None]
    ELSE [calls |-> <<[by |-> "supervisor", op |-> "context.close",
                       session |-> session, ok |-> outcome = "ok"]>>,
          logs |-> {},
          raised |-> IF outcome = "ok" THEN None ELSE "CloseError"]

\* variant of SupervisorClose: FINISH goes to END without closing
SupervisorClose_Skips(session, outcome) ==
    [calls |-> <<>>, logs |-> {}, raised |-> None]

\* variant of SupervisorClose: the context is closed a second time
SupervisorClose_Twice(session, outcome) ==
    IF session = NoSession
    THEN [calls |-> <<>>, logs |-> {}, raised |-> None]
    ELSE [calls |-> <<[by |-> "supervisor", op |-> "context.close",
                       session |-> session, ok |-> TRUE],
                      [by |-> "supervisor", op |-> "context.close",
                       session |-> session, ok |-> TRUE],
                      [by |-> "supervisor", op |-> "browser.close",
                       session |-> session, ok |-> TRUE]>>,
          logs |-> {}, raised |-> None]

\* lines 50-56: close calls on FINISH, the log record and the exception
\* that leaves the try statement (none: except Exception swallows it)
SupervisorClose(session, outcome) ==
    IF session = NoSession
    THEN [calls |-> <<>>, logs |-> {}, raised |-> None]
    ELSE [calls |-> IF outcome = "context.close raises"
                    THEN <<[by |-> "supervisor", op |-> "context.close",
                            session |-> session, ok |-> FALSE]>>
                    ELSE <<[by |-> "supervisor", op |-> "context.close",
                            session |-> session, ok |-> TRUE],
                           [by |-> "supervisor", op |-> "browser.close",
                            session |-> session, ok |-> outcome = "ok"]>>,
          logs |-> IF outcome = "ok" THEN {} ELSE {"Error closing browser"},
          raised |-> None]

\* variant of WorkerCommand: the message carries no worker name
WorkerCommand_Untagged(w, res) ==
    [goto |-> "supervisor",
     update |-> [browser_context |-> res.browser_context,
                 messages |-> <<[name |-> None, content |-> res.message]>>]]

\* variant of WorkerCommand: the session handle is not merged back
WorkerCommand_DropsSession(w, res) ==
    [goto |-> "supervisor",
     update |-> [browser_context |-> NoSession,
                 messages |-> <<[name |-> w, content |-> res.message]>>]]

\* variant of WorkerCommand: the Worker hands control to the act Worker
WorkerCommand_ToWorker(w, res) ==
    [goto |-> "act",
     update |-> [browser_context |-> res.browser_context,
                 messages |-> <<[name |-> w, content |-> res.message]>>]]

\* lines 77-83 and 100-106: the Command a Worker node returns
WorkerCommand(w, res) ==
    [goto |-> "supervisor",
     update |-> [browser_context |-> res.browser_context,
                 messages |-> <<[name |-> w, content |-> res.message]>>]]

\* HumanMessage(content=...) validates its content: None is rejected
HumanMessageRaises(content) == content = None

\* supervisor, routing output in workers
SupervisorDispatch(w) ==
    /\ status = "running"
    /\ "supervisor" \in tasks
    /\ runs < MaxRuns
    /\ LET cmd == SupervisorCommand(w) IN
        /\ goto' = w
        /\ ApplyUpdate(cmd.update)
        /\ tasks' = Schedule(tasks, "supervisor", cmd.goto)
        /\ status' = StatusOf(tasks')
    /\ UNCHANGED <<raised, wpc, context, sessions, closeCalls, log, result,
                   media, agent_run, runs, cookie_file, frame>>

\* supervisor, routing output FINISH
SupervisorFinish(outcome) ==
    /\ status = "running"
    /\ "supervisor" \in tasks
    /\ LET close == SupervisorClose(browser_context, outcome)
           cmd   == SupervisorCommand("FINISH") IN
        /\ goto' = "FINISH"
        /\ closeCalls' = closeCalls \o close.calls
        /\ log' = log \cup close.logs
        /\ IF close.raised # None
           THEN /\ raised' = close.raised
                /\ status' = "aborted"
                /\ tasks' = {}
                /\ NoUpdate
           ELSE /\ raised' = raised
                /\ ApplyUpdate(cmd.update)
                /\ tasks' = Schedule(tasks, "supervisor", cmd.goto)
                /\ status' = StatusOf(tasks')
    /\ UNCHANGED <<wpc, context, sessions, result, media, agent_run, runs,
                   cookie_file, frame>>

\* supervisor, routing output outside options: no check in lines 48-59, the
\* value goes into the Command. langgraph either ignores the unknown
\* target (the update is applied, nothing is scheduled) or rejects the
\* write (the step raises, no update is applied).
SupervisorOutOfEnum(rejected) ==
    /\ status = "running"
    /\ "supervisor" \in tasks
    /\ LET cmd == SupervisorCommand(OutOfEnum) IN
        /\ goto' = OutOfEnum
        /\ IF rejected
           THEN /\ raised' = "InvalidUpdateError"
                /\ status' = "aborted"
                /\ tasks' = {}
                /\ NoUpdate
           ELSE /\ raised' = raised
                /\ ApplyUpdate(cmd.update)
                /\ tasks' = Schedule(tasks, "supervisor", cmd.goto)
                /\ status' = StatusOf(tasks')
    /\ UNCHANGED <<wpc, context, sessions, closeCalls, log, result, media,
                   agent_run, runs, cookie_file, frame>>

\* authenticate / act up to `await self.agent.run()`: lines 63-70 of the
\* node, lines 107-133 of BrowserAgent.run
WorkerStart(w) ==
    /\ status = "running"
    /\ w \in tasks
    /\ wpc[w] = "idle"
    /\ LET s == OpenSession(browser_context, sessions) IN
        /\ context' = [context EXCEPT ![w] = s.context]
        /\ sessions' = s.created
    /\ wpc' = [wpc EXCEPT ![w] = "agent_run"]
    /\ runs' = runs + 1
    /\ UNCHANGED <<tasks, status, raised, messages, browser_context, next,
                   goto, closeCalls, log, result, media, agent_run, config,
                   cookie_file, frame>>

\* the rest of the node once self.agent.run() is over: the remainder of
\* BrowserAgent.run, then lines 71-83 / 95-106
WorkerEnd(w, run) ==
    /\ media' = run.media
    /\ IF run.raised # None
       THEN \* no try in the node: the exception leaves the graph
            /\ raised' = run.raised
            /\ status' = "aborted"
            /\ tasks' = {}
            /\ log' = log \cup run.logs
            /\ wpc' = [wpc EXCEPT ![w] = "raised"]
            /\ NoUpdate
            /\ UNCHANGED result
       ELSE LET cmd == WorkerCommand(w, run.output) IN
            /\ result' = run.output
            /\ log' = log \cup run.logs
            /\ IF HumanMessageRaises(cmd.update.messages[1].content)
               THEN /\ raised' = "ValidationError"
                    /\ status' = "aborted"
                    /\ tasks' = {}
                    /\ wpc' = [wpc EXCEPT ![w] = "raised"]
                    /\ NoUpdate
               ELSE /\ raised' = raised
                    /\ ApplyUpdate(cmd.update)
                    /\ tasks' = Schedule(tasks, w, cmd.goto)
                    /\ status' = StatusOf(tasks')
                    /\ wpc' = [wpc EXCEPT ![w] = "idle"]
    /\ UNCHANGED <<goto, context, sessions, closeCalls, runs, frame>>

\* self.agent.run() raises
WorkerStepLoopRaises(w) ==
    /\ status = "running"
    /\ w \in tasks
    /\ wpc[w] = "agent_run"
    /\ agent_run' = "raises"
    /\ UNCHANGED cookie_file
    /\ WorkerEnd(w, BrowserAgentRun(context[w], "raises", <<>>, None,
                                    "missing", TRUE))

\* self.agent.run() returns a history
WorkerStepLoopCompletes(w, history, final, cookieFile, renderOk) ==
    /\ status = "running"
    /\ w \in tasks
    /\ wpc[w] = "agent_run"
    /\ agent_run' = "completes"
    /\ cookie_file' = cookieFile
    /\ WorkerEnd(w, BrowserAgentRun(context[w], "completes", history, final,
                                    cookieFile, renderOk))

Next ==
    \/ \E w \in workers : SupervisorDispatch(w)
    \/ \E outcome \in CloseOutcomes : SupervisorFinish(outcome)
    \/ \E rejected \in BOOLEAN : SupervisorOutOfEnum(rejected)
    \/ \E w \in workers : WorkerStart(w)
    \/ \E w \in workers : WorkerStepLoopRaises(w)
    \/ \E w \in workers, history \in Histories, final \in FinalResults,
          cookieFile \in CookieFiles, renderOk \in BOOLEAN :
          WorkerStepLoopCompletes(w, history, final, cookieFile, renderOk)

Spec == Init /\ [][Next]_vars

TypeOK ==
    /\ tasks \subseteq Nodes
    /\ status \in {"running", "finished", "aborted"}
    /\ browser_context \in 0..MaxRuns
    /\ runs \in 0..MaxRuns
    /\ wpc \in [workers -> {"idle", "agent_run", "raised"}]

(***************************************************************************)
(* Steps, as seen in the state                                             *)
(***************************************************************************)
\* a supervisor step: its task is consumed
SupervisorStep == "supervisor" \in tasks /\ "supervisor" \notin tasks'
\* a supervisor step whose routing output is r
Routes(r) == SupervisorStep /\ goto' = r
\* Worker w is invoked
Starts(w) == wpc[w] = "idle" /\ wpc'[w] = "agent_run"
\* Worker w returns its Command
Returns(w) == wpc[w] = "agent_run" /\ wpc'[w] = "idle"
\* Worker w ends by raising
Raises(w) == wpc[w] = "agent_run" /\ wpc'[w] = "raised"
\* Worker w is between invocation and return
Active(w) == wpc[w] = "agent_run"
\* the terminal state the supervisor reaches with Command(goto=END)
FINISHED == status = "finished" /\ next = END

\* number of close calls with the given operation
CountOp(calls, op) == Cardinality({i \in DOMAIN calls : calls[i].op = op})
\* the calls a step has added
NewCalls == SubSeq(closeCalls', Len(closeCalls) + 1, Len(closeCalls'))

(***************************************************************************)
(* Claims                                                                  *)
(***************************************************************************)

\* C1: a supervisor step whose routing output is authenticate or act
\* schedules exactly that Worker, the node that then runs is that Worker,
\* and when it returns the conversation is the old one plus exactly one
\* message, named after the worker and holding the result's message.
C1_DispatchAppendsOneTaggedMessage ==
    [][\A w \in workers :
        /\ Routes(w) => tasks' = {w} /\ status' = "running"
        /\ (goto = w /\ tasks = {w} /\ ~Active(w)) => Starts(w)
        /\ Starts(w) => goto = w
        /\ Returns(w) =>
             messages' = Append(messages, [name |-> w, content |-> result'.message])
      ]_vars

C1_Witness ==
    /\ goto = "act"
    /\ "supervisor" \in tasks
    /\ Len(messages) = 2
    /\ messages[1].name = "authenticate"
    /\ messages[2] = [name |-> "act", content |-> result.message]

\* C2: once the routing output is FINISH the run is in the terminal state,
\* with no exception raised: with no session, with a session whose close
\* succeeds, and with a session whose close raises (logged, swallowed).
C2_FinishAlwaysTerminates ==
    goto = "FINISH" => (FINISHED /\ tasks = {} /\ raised = None)

C2_Witness ==
    /\ goto = "FINISH"
    /\ FINISHED
    /\ "Error closing browser" \in log
    /\ closeCalls # <<>>

\* C3: the FINISH step calls close() on the stored session's context
\* exactly once (and on its browser at most once, after it) when a session
\* is stored, and makes no close call when none is stored.
C3_CloseAttemptedOnceOnFinish ==
    [][Routes("FINISH") =>
        IF browser_context = NoSession
        THEN closeCalls' = closeCalls
        ELSE /\ CountOp(NewCalls, "context.close") = 1
             /\ CountOp(NewCalls, "browser.close") <= 1
             /\ NewCalls[1].op = "context.close"
             /\ \A i \in DOMAIN NewCalls : NewCalls[i].session = browser_context
      ]_vars

C3_Witness ==
    /\ FINISHED
    /\ browser_context # NoSession
    /\ CountOp(closeCalls, "context.close") = 1

\* C4: a Worker run given no session creates exactly one new session and
\* returns that one; a run given a session creates none and returns the
\* one it was given.
C4_SessionCreatedOnceOrReused ==
    [][\A w \in workers :
        /\ Starts(w) =>
             IF browser_context = NoSession
             THEN /\ Cardinality(sessions') = Cardinality(sessions) + 1
                  /\ sessions \subseteq sessions'
                  /\ context'[w] \in sessions' \ sessions
             ELSE /\ sessions' = sessions
                  /\ context'[w] = browser_context
        /\ Returns(w) =>
             /\ result'.browser_context = context[w]
             /\ sessions' = sessions
      ]_vars

C4_Witness ==
    /\ runs = 2
    /\ "supervisor" \in tasks
    /\ sessions = {1}
    /\ result # NoOutput
    /\ result.browser_context = 1

\* C5: at the start of every Worker invocation but the first of a run,
\* the state's browser_context is not None.
C5_SessionPresentAfterFirstWorker ==
    [][\A w \in workers :
        (Starts(w) /\ runs >= 1) => browser_context # NoSession]_vars

C5_Witness ==
    /\ runs >= 2
    /\ \E w \in workers : Active(w)
    /\ browser_context # NoSession

\* number of completed closes of a session: its browser.close() returned
TimesClosed == Cardinality({i \in DOMAIN closeCalls :
                   closeCalls[i].op = "browser.close" /\ closeCalls[i].ok})

\* what C6 says of creation and of who closes
C6_Ownership ==
    /\ Cardinality(sessions) <= 1
    /\ sessions # {} => runs >= 1
    /\ \A i \in DOMAIN closeCalls :
          closeCalls[i].by = "supervisor" /\ closeCalls[i].session \in sessions
    /\ closeCalls # <<>> => goto = "FINISH"
    /\ TimesClosed <= 1

\* C6 as stated: at most one session is ever created, only the supervisor
\* closes it, only on FINISH and at most once, and a run that is FINISHED
\* after a Worker ran has closed it exactly once.
C6_AsStated ==
    /\ C6_Ownership
    /\ (FINISHED /\ runs >= 1) => TimesClosed = 1

\* C6, amended: at most one session is ever created, only the supervisor
\* closes it, only on FINISH and at most once; a run that is FINISHED after
\* a Worker ran has attempted the close exactly once, and has closed the
\* session exactly once unless a close call raised.
C6_SessionClosedOnceUnlessCloseRaises ==
    /\ C6_Ownership
    /\ CountOp(closeCalls, "context.close") <= 1
    /\ (FINISHED /\ runs >= 1) =>
         /\ CountOp(closeCalls, "context.close") = 1
         /\ (\A i \in DOMAIN closeCalls : closeCalls[i].ok) => TimesClosed = 1

C6_Witness ==
    /\ FINISHED
    /\ runs >= 2
    /\ CountOp(closeCalls, "context.close") = 1
    /\ TimesClosed = 0

\* C7: at most one Worker is between invocation and return; a Worker is
\* invoked only on the supervisor's routing to it, with the supervisor not
\* scheduled and no Worker active; the supervisor runs only when no Worker
\* is active.
C7_AtMostOneWorkerActive ==
    /\ [](Cardinality({w \in workers : Active(w)}) <= 1)
    /\ [][/\ \A w \in workers :
               Starts(w) => /\ goto = w
                            /\ next = w
                            /\ "supervisor" \notin tasks
                            /\ \A v \in workers : ~Active(v)
          /\ SupervisorStep => \A w \in workers : ~Active(w)
          /\ (\E w \in workers : Active(w)) => goto' = goto
         ]_vars

C7_Witness ==
    /\ Active("act")
    /\ ~Active("authenticate")
    /\ tasks = {"act"}
    /\ runs >= 2

\* C8: when self.agent.run() raises, the Worker run raises and returns no
\* result, the run of the graph is aborted with that exception, with no
\* message appended, no state update, no close call and no task left, and
\* an aborted run takes no further step.
C8_StepLoopFailureAbortsRun ==
    [][/\ \A w \in workers :
            (Active(w) /\ wpc'[w] # "agent_run" /\ agent_run' = "raises") =>
                /\ Raises(w)
                /\ raised' = "StepLoopError"
                /\ status' = "aborted"
                /\ tasks' = {}
                /\ UNCHANGED <<messages, browser_context, next, goto, result,
                               closeCalls, sessions>>
       /\ status = "aborted" => UNCHANGED vars
      ]_vars

C8_Witness ==
    /\ raised = "StepLoopError"
    /\ status = "aborted"
    /\ agent_run = "raises"
    /\ Len(messages) = 1
    /\ browser_context # NoSession
    /\ closeCalls = <<>>

\* C9: when the step-loop completed and the composer returned None, the
\* Worker run returns a result whose media fields are None and whose
\* message and session handle are those of the run; it does not raise.
\* (A run that raises IndexError at line 138 is left aside: that failure
\* is not the composer's.)
C9_MediaFailureIsNonFatal ==
    [][\A w \in workers :
        (/\ Active(w)
         /\ wpc'[w] # "agent_run"
         /\ agent_run' = "completes"
         /\ media' = NoMedia
         /\ raised' # "IndexError") =>
            /\ raised' # "AttributeError"
            /\ result'.browser_context = context[w]
            /\ result'.agent_history_gif_url = None
            /\ result'.agent_history_gif_video_url = None
            /\ result'.agent_history_video_recording_url = None
      ]_vars

\* C10: a routing output outside {authenticate, act, FINISH} is fatal: the
\* supervisor step logs it and the run aborts with an exception, with no
\* Worker scheduled and no state update.
C10_OutOfEnumIsLoggedAndFatal ==
    [][Routes(OutOfEnum) =>
        /\ status' = "aborted"
        /\ raised' # None
        /\ log' # log
        /\ tasks' = {}
        /\ UNCHANGED <<next, messages, browser_context>>
      ]_vars

\* Worker w's run ends (returns or raises) after its step-loop completed
EndsCompleted(w) ==
    Active(w) /\ wpc'[w] # "agent_run" /\ agent_run' = "completes"

\* C11: when the step-loop completed and the cookie file is missing,
\* unreadable or not valid JSON, reading it raises nothing: the run either
\* returns a result whose agent_cookies is None, or raises one of the
\* exceptions of lines 138 and 141, which the cookie file does not decide.
C11_CookieReadFailureGivesNull ==
    [][\A w \in workers :
        (EndsCompleted(w) /\ cookie_file' # "cookies") =>
            /\ raised' \in {None, "IndexError", "AttributeError", "ValidationError"}
            /\ raised' \notin {"IndexError", "AttributeError"} =>
                 /\ result'.agent_cookies = None
                 /\ result'.browser_context = context[w]
                 /\ media' # NoMedia
      ]_vars

C11_Witness ==
    /\ agent_run = "completes"
    /\ cookie_file = "invalid json"
    /\ "Failed to read JSON file" \in log
    /\ raised = None
    /\ "supervisor" \in tasks
    /\ Len(messages) >= 1
    /\ result.agent_cookies = None

(***************************************************************************)
(* The supervisor's routing input, checked alone on pairs of states        *)
(***************************************************************************)
\* longest conversation of a state given to the supervisor
MaxConv == 2

\* graph.py lines 23-30
base_system_prompt ==
    "You are a supervisor tasked with managing a conversation between the following workers: ['authenticate', 'act'], to achieve a goal. Given the following user request, respond with the worker to act next. Each worker will perform a task and respond with their results and status. When finished, respond with FINISH."

\* variant of SupervisorMessages: the last decision is shown to the router
SupervisorMessages_WithNext(state) ==
    <<[role |-> "system", content |-> base_system_prompt],
      [role |-> "system", content |-> state.next]>> \o state.messages

\* graph.py line 45: the messages given to llm.call_with_structured_output
SupervisorMessages(state) ==
    <<[role |-> "system", content |-> base_system_prompt]>> \o state.messages

\* the BrowserState values the supervisor is called with
RouterMessages == {[role |-> "human", name |-> w, content |-> "logged in"] :
                      w \in workers}
RouterStates ==
    [messages : SeqsUpTo(RouterMessages, MaxConv),
     browser_context : {NoSession, 1},
     next : {None, "act"},
     image : {None, "b64"},
     title : {"Get the weather", "Book a flight"}]

RouterInit ==
    /\ GraphInit
    /\ frame \in {[fn |-> "supervisor", pc |-> "call", s1 |-> a, s2 |-> b,
                   in1 |-> <<>>, in2 |-> <<>>] : a, b \in RouterStates}

\* the supervisor builds its routing input in each of the two states
SupervisorBuildsInput ==
    /\ frame.fn = "supervisor"
    /\ frame.pc = "call"
    /\ frame' = [frame EXCEPT !.pc = "called",
                              !.in1 = SupervisorMessages(frame.s1),
                              !.in2 = SupervisorMessages(frame.s2)]
    /\ UNCHANGED gvars

RouterNext == SupervisorBuildsInput

RouterSpec == RouterInit /\ [][RouterNext]_vars

\* C12: two states with equal conversations give the routing capability
\* the same input, whatever their browser_context, next, image and
\* configuration; in any two states the input starts with the same system
\* prompt.
C12_RoutingInputFromConversationOnly ==
    (frame.fn = "supervisor" /\ frame.pc = "called") =>
        /\ frame.in1[1] = frame.in2[1]
        /\ frame.in1[1].content = base_system_prompt
        /\ frame.s1.messages = frame.s2.messages => frame.in1 = frame.in2

C12_Witness ==
    /\ frame.fn = "supervisor"
    /\ frame.pc = "called"
    /\ frame.s1.messages = frame.s2.messages
    /\ Len(frame.s1.messages) = 2
    /\ frame.s1.browser_context # frame.s2.browser_context
    /\ frame.s1.next # frame.s2.next
    /\ frame.s1.image # frame.s2.image
    /\ frame.s1.title # frame.s2.title
    /\ frame.in1 = frame.in2
    /\ Len(frame.in1) = 3

(***************************************************************************)
(* Claims on the run of the graph, continued                               *)
(***************************************************************************)

\* C13: once the supervisor has taken a step with a routing output of
\* {authenticate, act, FINISH}, next holds that output; after FINISH it
\* holds "FINISH".
C13_NextHoldsLastDecision ==
    goto \in options => (next = goto /\ next \in options)

(***************************************************************************)
(* FileUtils.create_media_from_history_list, checked alone                 *)
(***************************************************************************)
\* longest history given to the composer
MaxMediaHist == 3
\* most screenshots_to_append given to the composer
MaxAppend == 1

\* the composer reads of an entry its screenshot and its model_output
MediaEntries == {e \in Entries : e.result = <<None>>}

MediaInit ==
    /\ GraphInit
    /\ frame \in {[fn |-> "create_media_from_history_list", pc |-> "call",
                   history |-> h, nAppend |-> n, output_format |-> f,
                   renderOk |-> ok, images |-> <<>>, ret |-> NotRun] :
                  h \in SeqsUpTo(MediaEntries, MaxMediaHist),
                  n \in 0..MaxAppend,
                  f \in SUBSET {"gif", "mp4"},
                  ok \in BOOLEAN}

\* one call of create_media_from_history_list; images is the list built
\* when the try block ran to its end
Compose ==
    /\ frame.fn = "create_media_from_history_list"
    /\ frame.pc = "call"
    /\ frame' = [frame EXCEPT
          !.pc = "returned",
          !.images = IF MediaRaises(frame.history, frame.renderOk) THEN <<>>
                     ELSE Frames(frame.history, frame.nAppend),
          !.ret = create_media_from_history_list(
                      frame.history, frame.nAppend, AGENT_HISTORY_FILE_NAME,
                      frame.output_format, frame.renderOk)]
    /\ UNCHANGED gvars

MediaNext == Compose

MediaSpec == MediaInit /\ [][MediaNext]_vars

\* the composer has returned
Composed == frame.fn = "create_media_from_history_list" /\ frame.pc = "returned"

\* number of frames of a kind
CountKind(images, kind) ==
    Cardinality({i \in DOMAIN images : images[i].kind = kind})

\* C14: called with an empty history and no screenshots to append, the
\* composer returns None, for every list of output formats and whether or
\* not fonts and encoders work.
C14_EmptyHistoryGivesNone ==
    (Composed /\ frame.history = <<>> /\ frame.nAppend = 0) =>
        (frame.ret = NoMedia /\ frame.images = <<>>)

C14_Witness ==
    /\ Composed
    /\ frame.history = <<>>
    /\ frame.nAppend = 0
    /\ frame.output_format = {"gif", "mp4"}
    /\ frame.renderOk
    /\ frame.ret = NoMedia

\* C16: for a history of 3 entries of which exactly one has no screenshot,
\* at any position, and nothing to append, the composer (fonts and encoders
\* working) builds 1 title frame and 2 step frames and returns media.
C16_EntryWithoutScreenshotIsSkipped ==
    (/\ Composed
     /\ frame.renderOk
     /\ frame.nAppend = 0
     /\ Len(frame.history) = 3
     /\ Cardinality({i \in 1..3 : ~frame.history[i].screenshot}) = 1) =>
        /\ frame.ret # NoMedia
        /\ Len(frame.images) = 3
        /\ frame.images[1].kind = "title"
        /\ CountKind(frame.images, "step") = 2

(***************************************************************************)
(* FileUtils._wrap_text, checked alone.  A text is the list of the widths  *)
(* of its words (text.split()); a line is the list of the positions of its *)
(* words; the width of a line is what font.getbbox measures of the words   *)
(* joined by single spaces.                                                *)
(***************************************************************************)
\* most words of a text
MaxWords == 3
\* widest word
MaxWordWidth == 4
\* largest max_width
MaxLineWidth == 3
\* width of the space that joins two words of a line
SpaceWidth == 1

Texts == SeqsUpTo(1..MaxWordWidth, MaxWords)

RECURSIVE SumWidths(_, _)
SumWidths(words, line) ==
    IF line = <<>> THEN 0
    ELSE words[Head(line)] + SumWidths(words, Tail(line))

\* font.getbbox(" ".join(line))[2]
getbbox(words, line) ==
    IF line = <<>> THEN 0
    ELSE SumWidths(words, line) + SpaceWidth * (Len(line) - 1)

\* current_line.pop() leaves the line without its last word
Pop(line) == SubSeq(line, 1, Len(line) - 1)

\* variant of WrapStep: on overflow the line is emitted with the word that
\* overflowed it
WrapStep_KeepsWord(words, max_width, current_line, lines, word) ==
    LET appended == Append(current_line, word) IN
    IF getbbox(words, appended) > max_width
    THEN [current_line |-> <<>>, lines |-> Append(lines, appended)]
    ELSE [current_line |-> appended, lines |-> lines]

\* variant of WrapStep: a line that is exactly max_width wide counts as
\* overflowing
WrapStep_BreaksEarly(words, max_width, current_line, lines, word) ==
    LET appended == Append(current_line, word) IN
    IF getbbox(words, appended) >= max_width
    THEN IF Len(appended) = 1
         THEN [current_line |-> <<>>, lines |-> Append(lines, appended)]
         ELSE [current_line |-> <<word>>,
               lines |-> Append(lines, Pop(appended))]
    ELSE [current_line |-> appended, lines |-> lines]

\* one pass of the loop body for the word at position word
WrapStep(words, max_width, current_line, lines, word) ==
    LET appended == Append(current_line, word) IN
    IF getbbox(words, appended) > max_width
    THEN IF Len(appended) = 1
         THEN [current_line |-> <<>>, lines |-> Append(lines, appended)]
         ELSE [current_line |-> <<word>>,
               lines |-> Append(lines, Pop(appended))]
    ELSE [current_line |-> appended, lines |-> lines]

WrapInit ==
    /\ GraphInit
    /\ frame \in {[fn |-> "_wrap_text", pc |-> "loop", words |-> t,
                   max_width |-> m, i |-> 1, current_line |-> <<>>,
                   lines |-> <<>>] :
                  t \in Texts, m \in 1..MaxLineWidth}

\* for word in words: ...
WrapWord ==
    /\ frame.fn = "_wrap_text"
    /\ frame.pc = "loop"
    /\ frame.i <= Len(frame.words)
    /\ LET r == WrapStep(frame.words, frame.max_width, frame.current_line,
                         frame.lines, frame.i)
       IN frame' = [frame EXCEPT !.i = @ + 1,
                                 !.current_line = r.current_line,
                                 !.lines = r.lines]
    /\ UNCHANGED gvars

\* if current_line: lines.append(...); return "\n".join(lines)
WrapReturn ==
    /\ frame.fn = "_wrap_text"
    /\ frame.pc = "loop"
    /\ frame.i > Len(frame.words)
    /\ frame' = [frame EXCEPT
          !.pc = "returned",
          !.current_line = <<>>,
          !.lines = IF frame.current_line # <<>>
                    THEN Append(@, frame.current_line) ELSE @]
    /\ UNCHANGED gvars

WrapNext == WrapWord \/ WrapReturn

WrapSpec == WrapInit /\ [][WrapNext]_vars

Wrapped == frame.fn = "_wrap_text" /\ frame.pc = "returned"

\* the output lines that hold the word at position k
LinesOf(lines, k) ==
    {j \in DOMAIN lines : \E p \in DOMAIN lines[j] : lines[j][p] = k}

\* C15: in the returned text every word wider than max_width, at whatever
\* position of the input, is on exactly one line and that line holds
\* nothing else.
C15_OverwideWordAloneOnItsLine ==
    Wrapped =>
        \A k \in DOMAIN frame.words :
            frame.words[k] > frame.max_width =>
                /\ Cardinality(LinesOf(frame.lines, k)) = 1
                /\ \A j \in LinesOf(frame.lines, k) : frame.lines[j] = <<k>>

\* an over-wide word between two words that would fit together
C15_Witness ==
    /\ Wrapped
    /\ Len(frame.words) = 3
    /\ frame.words[2] > frame.max_width
    /\ frame.words[1] + SpaceWidth + frame.words[3] <= frame.max_width
    /\ frame.lines = <<<<1>>, <<2>>, <<3>>>>

(***************************************************************************)
(* The cookie file: BrowserAgent._write_cookies_to_file followed by        *)
(* BrowserAgent._read_agent_cookies, checked alone.  The file holds JSON   *)
(* text; a cookie is an object of a string, a boolean and a number.        *)
(***************************************************************************)
\* longest list of cookies
MaxCookies == 2

CookieNames == {"sid", "csrf"}
\* expires: -1 for a session cookie, or a time
Expiries == {-1, 1}
Cookies == [name : CookieNames, secure : BOOLEAN, expires : Expiries]
CookieLists == SeqsUpTo(Cookies, MaxCookies)

\* json.dumps of a string
Quote(str) == "\"" \o str \o "\""

\* json.dumps of a list of cookies: the text of each member of each object
json_dumps(data) ==
    [i \in DOMAIN data |->
        [name |-> Quote(data[i].name),
         secure |-> IF data[i].secure THEN "true" ELSE "false",
         expires |-> ToString(data[i].expires)]]

\* json.loads of such a text
json_loads(text) ==
    [i \in DOMAIN text |->
        [name |-> CHOOSE v \in CookieNames : Quote(v) = text[i].name,
         secure |-> text[i].secure = "true",
         expires |-> CHOOSE n \in Expiries : ToString(n) = text[i].expires]]

NoFile == [exists |-> FALSE]

\* FileUtils.write_data_to_file
write_data_to_file(file, data) == [exists |-> TRUE, text |-> json_dumps(data)]

\* BrowserAgent._write_cookies_to_file: an empty list is falsy
_write_cookies_to_file(file, cookies) ==
    IF cookies # <<>> THEN write_data_to_file(file, cookies) ELSE file

\* FileUtils.read_json_file on a file that is missing or holds JSON text,
\* as _read_agent_cookies returns it
ReadCookieFile(file) ==
    IF file.exists THEN [none |-> FALSE, list |-> json_loads(file.text)]
    ELSE [none |-> TRUE]

CookieInit ==
    /\ GraphInit
    /\ frame \in {[fn |-> "cookies", pc |-> "write", cookies |-> c,
                   file |-> f, ret |-> NotRun] :
                  c \in CookieLists,
                  f \in {NoFile} \cup
                        {write_data_to_file(NoFile, old) :
                             old \in SeqsUpTo(Cookies, 1)}}

WriteCookies ==
    /\ frame.fn = "cookies"
    /\ frame.pc = "write"
    /\ frame' = [frame EXCEPT
          !.pc = "read",
          !.file = _write_cookies_to_file(frame.file, frame.cookies)]
    /\ UNCHANGED gvars

ReadCookies ==
    /\ frame.fn = "cookies"
    /\ frame.pc = "read"
    /\ frame' = [frame EXCEPT !.pc = "done",
                              !.ret = ReadCookieFile(frame.file)]
    /\ UNCHANGED gvars

CookieNext == WriteCookies \/ ReadCookies

CookieSpec == CookieInit /\ [][CookieNext]_vars

\* C17: a list of cookies written to the cookie file and read back is the
\* list that was written, in the same order, the empty list included.
C17_CookieRoundTrip ==
    (frame.fn = "cookies" /\ frame.pc = "done") =>
        frame.ret = [none |-> FALSE, list |-> frame.cookies]

(***************************************************************************)
(* BrowserAgent.run after its step-loop completed, checked alone on every  *)
(* history                                                                 *)
(***************************************************************************)
RunInit ==
    /\ GraphInit
    /\ frame \in {[fn |-> "BrowserAgent.run", pc |-> "agent_run",
                   history |-> h, final |-> f, cookieFile |-> c,
                   renderOk |-> ok, out |-> NotRun] :
                  h \in RunHistories, f \in FinalResults, c \in CookieFiles,
                  ok \in BOOLEAN}

\* lines 135-159, with the session the run was given
RunAfterStepLoop ==
    /\ frame.fn = "BrowserAgent.run"
    /\ frame.pc = "agent_run"
    /\ frame' = [frame EXCEPT
          !.pc = "ended",
          !.out = BrowserAgentRun(1, "completes", frame.history, frame.final,
                                  frame.cookieFile, frame.renderOk)]
    /\ UNCHANGED gvars

RunNext == RunAfterStepLoop

RunSpec == RunInit /\ [][RunNext]_vars

\* C18: after a completed step-loop (the composer having made media), run
\* returns a result whose message is the step-loop's final result and whose
\* error is the error of the last result of the last history entry, None
\* when that entry has no result.
C18_MessageAndErrorOfResult ==
    (/\ frame.fn = "BrowserAgent.run"
     /\ frame.pc = "ended"
     /\ frame.out.media # NoMedia) =>
        /\ frame.out.raised = None
        /\ frame.out.output.message = frame.final
        /\ frame.out.output.error =
              LET r == frame.history[Len(frame.history)].result
              IN  IF r = <<>> THEN None ELSE r[Len(r)]

IsPrefix(a, b) == Len(a) <= Len(b) /\ SubSeq(b, 1, Len(a)) = a

\* C20: a supervisor step leaves messages, browser_context and the
\* configuration as they are; a Worker that returns leaves next and the
\* configuration as they are and appends to messages; a Worker's other
\* steps change none of them; so messages only grows at its end and title,
\* prompt and the two instructions keep their input values.
C20_StepsChangeOnlyTheirPart ==
    [][/\ SupervisorStep => UNCHANGED <<messages, browser_context, config>>
       /\ \A w \in workers :
            /\ Returns(w) =>
                  /\ UNCHANGED <<next, config>>
                  /\ IsPrefix(messages, messages')
                  /\ Len(messages') = Len(messages) + 1
            /\ (Starts(w) \/ Raises(w)) =>
                  UNCHANGED <<messages, browser_context, next, config>>
       /\ IsPrefix(messages, messages')
       /\ config' = InputConfig
      ]_vars

\* a supervisor step taken on a conversation of two messages and a session
C20_Witness ==
    /\ Len(messages) = 2
    /\ browser_context # NoSession
    /\ next = "act"
    /\ tasks = {"act"}
    /\ config = InputConfig

(***************************************************************************)
(* Claims on FileUtils._wrap_text, continued                               *)
(***************************************************************************)
RECURSIVE Flatten(_)
Flatten(lines) ==
    IF lines = <<>> THEN <<>> ELSE Head(lines) \o Flatten(Tail(lines))

\* C21: the returned lines hold the words of the text in their order, no
\* line is empty, every line of two or more words is at most max_width
\* wide, and every line but the last would be wider than max_width with
\* the first word of the line after it: the breaks are where the next word
\* does not fit and nowhere else.
C21_WrapIsGreedy ==
    Wrapped =>
        /\ Flatten(frame.lines) = [k \in 1..Len(frame.words) |-> k]
        /\ \A j \in DOMAIN frame.lines :
              /\ frame.lines[j] # <<>>
              /\ Len(frame.lines[j]) >= 2 =>
                    getbbox(frame.words, frame.lines[j]) <= frame.max_width
              /\ j < Len(frame.lines) =>
                    getbbox(frame.words,
                            Append(frame.lines[j], Head(frame.lines[j + 1])))
                        > frame.max_width

\* two words that fill a line exactly, then a word that does not fit
C21_Witness ==
    /\ Wrapped
    /\ Len(frame.words) = 3
    /\ frame.lines = <<<<1, 2>>, <<3>>>>
    /\ getbbox(frame.words, <<1, 2>>) = frame.max_width
    /\ frame.words[3] <= frame.max_width

(***************************************************************************)
(* Claims on BrowserAgent.run, continued                                   *)
(***************************************************************************)
\* C22: when run returns a result after the composer returned a GIF path
\* and a video path, the result carries the GIF path in
\* agent_history_gif_url and the video path in one of its two video fields.
C22_ResultCarriesMediaPaths ==
    (/\ frame.fn = "BrowserAgent.run"
     /\ frame.pc = "ended"
     /\ frame.out.raised = None
     /\ frame.out.media # NoMedia) =>
        /\ frame.out.output.agent_history_gif_url = frame.out.media.gif
        /\ frame.out.media.mp4 \in
              {frame.out.output.agent_history_gif_video_url,
               frame.out.output.agent_history_video_recording_url}

(***************************************************************************)
(* Claims on FileUtils.create_media_from_history_list, continued           *)
(***************************************************************************)
\* the composer has built its frames from a history whose first entry has
\* a screenshot
ComposedFrames ==
    /\ Composed
    /\ frame.renderOk
    /\ Len(frame.history) > 0
    /\ frame.history[1].screenshot

\* positions of the entries that have a screenshot
WithScreenshot(history) == {i \in DOMAIN history : history[i].screenshot}

\* images is a title frame, then the step frames of the entries with a
\* screenshot in history order, then the appended frames in their order
FrameSequenceOK ==
    LET images == frame.images
        shots  == WithScreenshot(frame.history)
        nSteps == Cardinality(shots)
    IN  /\ Len(images) = 1 + nSteps + frame.nAppend
        /\ images[1].kind = "title"
        /\ \A j \in 2..(1 + nSteps) :
              /\ images[j].kind = "step"
              /\ images[j].source \in shots
              /\ j > 2 => images[j - 1].source < images[j].source
        /\ \A j \in (2 + nSteps)..Len(images) :
              /\ images[j].kind = "appended"
              /\ images[j].source = j - 1 - nSteps

MaxHeight == 4
\* largest window.innerHeight
MaxView == 2
\* farthest one PageDown scrolls
MaxStep == 2
\* most the page grows on one scroll
MaxGrow == 1
\* screenshots kept in the model; a run that ends takes fewer
MaxShots == MaxHeight + 1

Min(a, b) == IF a < b THEN a ELSE b

\* variant of LoopExits: the bottom itself does not end the loop
LoopExits_PastBottom(current_position, innerHeight, last_height) ==
    current_position + innerHeight > last_height

\* line 84: the test that ends the loop
LoopExits(current_position, innerHeight, last_height) ==
    current_position + innerHeight >= last_height

PageInit ==
    /\ GraphInit
    /\ frame \in {[fn |-> "read_page_content", pc |-> "start",
                   H |-> h, V |-> v, y |-> y0, step |-> st, grow |-> g,
                   last_height |-> 0, new_height |-> 0,
                   screenshots |-> <<>>, ocr |-> <<>>] :
                  v \in 1..MaxView, h \in 1..MaxHeight, y0 \in 0..MaxHeight,
                  st \in 0..MaxStep, g \in 0..MaxGrow}
    /\ frame.H >= frame.V
    /\ frame.y <= frame.H - frame.V

InCall == frame.fn = "read_page_content"

\* lines 73-76
ReadStart ==
    /\ InCall
    /\ frame.pc = "start"
    /\ frame' = [frame EXCEPT !.pc = "screenshot", !.last_height = frame.H]
    /\ UNCHANGED gvars

\* line 78: the screenshot is what the window shows at scrollY
TakeScreenshot ==
    /\ InCall
    /\ frame.pc = "screenshot"
    /\ frame' = [frame EXCEPT
          !.pc = "press",
          !.screenshots = IF Len(@) < MaxShots THEN Append(@, frame.y) ELSE @]
    /\ UNCHANGED gvars

\* lines 79-80: PageDown and the load it sets off; the window scrolls as
\* far as the page lets it, then the page may grow
PressPageDown ==
    /\ InCall
    /\ frame.pc = "press"
    /\ frame' = [frame EXCEPT
          !.pc = "measure",
          !.y = Min(frame.y + frame.step, frame.H - frame.V),
          !.H = Min(frame.H + frame.grow, MaxHeight)]
    /\ UNCHANGED gvars

\* lines 81-86
Measure ==
    /\ InCall
    /\ frame.pc = "measure"
    /\ frame' = [frame EXCEPT
          !.new_height = frame.H,
          !.pc = IF LoopExits(frame.y, frame.V, frame.last_height)
                 THEN "ocr" ELSE "screenshot",
          !.last_height = IF LoopExits(frame.y, frame.V, frame.last_height)
                          THEN @ ELSE frame.H]
    /\ UNCHANGED gvars

\* lines 87-91
DoOcr ==
    /\ InCall
    /\ frame.pc = "ocr"
    /\ frame' = [frame EXCEPT !.pc = "returned",
                              !.ocr = Append(@, frame.screenshots)]
    /\ UNCHANGED gvars

PageNext == ReadStart \/ TakeScreenshot \/ PressPageDown \/ Measure \/ DoOcr

PageSpec == PageInit /\ [][PageNext]_vars

\* the coroutine goes on whenever the call it awaits has returned
PageFairSpec == PageSpec /\ WF_vars(PageNext)

\* what holds of every call, whatever the page
ReadPageSafety ==
    /\ [](InCall =>
            /\ Len(frame.ocr) <= 1
            /\ frame.pc \in {"ocr", "returned"} =>
                  /\ Len(frame.screenshots) >= 1
                  /\ LoopExits(frame.y, frame.V, frame.last_height)
            /\ frame.pc = "returned" =>
                  (Len(frame.ocr) = 1 /\ frame.ocr[1] = frame.screenshots))
    /\ [][InCall =>
            /\ frame.pc = "screenshot" => frame'.pc = "press"
            /\ (frame.pc = "measure" /\ frame'.pc = "screenshot") =>
                  frame.y + frame.V < frame.last_height
            /\ frame'.pc = "ocr" =>
                  (frame.pc = "measure" /\ Len(frame.screenshots) < MaxShots)
         ]_vars

\* C24 as stated: on every page of constant height the call returns.
C24_AsStated ==
    /\ ReadPageSafety
    /\ (InCall /\ frame.grow = 0) ~> (InCall /\ frame.pc = "returned")

\* C24: on a page of constant height that every PageDown scrolls until its
\* bottom is reached, the call returns; on every page a screenshot is taken
\* before each PageDown, the loop goes on while scroll position plus inner
\* height is below the height recorded before the scroll and ends when it
\* is not, and the OCR capability is then called once, with the
\* screenshots in the order they were taken.
C24_ReadPageTerminates ==
    /\ ReadPageSafety
    /\ (InCall /\ frame.grow = 0 /\ frame.step >= 1)
           ~> (InCall /\ frame.pc = "returned")

\* a page three windows high: screenshots at the top and one window down
C24_Witness ==
    /\ InCall
    /\ frame.pc = "returned"
    /\ frame.grow = 0
    /\ frame.step = 1
    /\ frame.V = 1
    /\ frame.H = 3
    /\ frame.ocr = << <<0, 1>> >>

====
